---- MODULE Spec2Model ----
(***************************************************************************)
(* Model of codex-rs/rmcp-client/src/find_codex_home.rs.                   *)
(*                                                                         *)
(* find_codex_home() reads the process environment (LEXICON_HOME), the     *)
(* home directory reported by dirs::home_dir() and, through                *)
(* PathBuf::canonicalize(), the filesystem.  Those three are the state of  *)
(* the model; the function itself is the action Resolve.                   *)
(*                                                                         *)
(* Text (OsString / PathBuf contents) is a sequence of units: "/", ".",    *)
(* "a", the unit "lexicon" (the letters of the fixed directory name) and   *)
(* "xFF", a byte that is not valid UTF-8.                                  *)
(***************************************************************************)
EXTENDS Integers, Sequences, FiniteSets, TLC

\* Longest LEXICON_HOME value explored.
MaxLen == 3

\* Units an environment value is made of.
Slash == "/"

InvalidByte == "xFF"

Chars == {"/", ".", "a"}

OsBytes == Chars \cup {InvalidByte}

\* The fixed child segment pushed onto the home directory: ".lexicon".
DotLexicon == <<".", "lexicon">>

Dot == <<".">>

DotDot == <<".", ".">>

RECURSIVE SeqsUpTo(_, _)
SeqsUpTo(S, n) ==
    IF n = 0 THEN {<<>>}
    ELSE LET shorter == SeqsUpTo(S, n - 1)
         IN  shorter \cup {Append(s, c) : s \in {t \in shorter : Len(t) = n - 1}, c \in S}

OsStrings == SeqsUpTo(OsBytes, MaxLen)

(***************************************************************************)
(* The process environment: LEXICON_HOME is absent or holds an OsString.   *)
(***************************************************************************)
Unset == [set |-> FALSE, val |-> <<>>]

SetTo(v) == [set |-> TRUE, val |-> v]

EnvValues == {Unset} \cup {SetTo(v) : v \in OsStrings}

\* std::env::var: Err(NotPresent) when absent, Err(NotUnicode) when the
\* value is not valid Unicode, Ok(String) otherwise.
EnvVar(e) ==
    IF ~e.set THEN [ok |-> FALSE, err |-> "NotPresent", val |-> <<>>]
    ELSE IF \E i \in 1..Len(e.val) : e.val[i] = InvalidByte
         THEN [ok |-> FALSE, err |-> "NotUnicode", val |-> <<>>]
         ELSE [ok |-> TRUE, err |-> "", val |-> e.val]

(***************************************************************************)
(* dirs::home_dir(): None, or Some(path).  The path is whatever the OS     *)
(* (HOME, else the password database) reports; it is not checked.          *)
(***************************************************************************)
NotAvailable == [some |-> FALSE, path |-> <<>>]

Found(h) == [some |-> TRUE, path |-> h]

HomeDirs ==
    {NotAvailable,
     Found(<<"/">>),
     Found(<<"/", "a">>),
     Found(<<"/", "a", "/">>),
     Found(<<"a">>)}

(***************************************************************************)
(* The filesystem: a tree of nodes addressed by their location, the        *)
(* sequence of names from the root.  The root is a searchable directory.   *)
(***************************************************************************)
Absent == [type |-> "absent", x |-> FALSE, target |-> <<>>]

File == [type |-> "file", x |-> FALSE, target |-> <<>>]

Dir(x) == [type |-> "dir", x |-> x, target |-> <<>>]

Link(t) == [type |-> "link", x |-> FALSE, target |-> t]

RootLoc == <<>>

LocA == <<<<"a">>>>

LocAA == <<<<"a">>, <<"a">>>>

LocAL == <<<<"a">>, DotLexicon>>

Slots == {LocA, LocAA, LocAL}

\* Symlink contents: the root, a relative name, a name that never exists.
LinkTargets == {<<"/">>, <<"a">>, <<"a", "a">>}

Links == {Link(t) : t \in LinkTargets}

FileSystems ==
    {f \in [Slots -> {Absent, File, Dir(TRUE), Dir(FALSE)} \cup Links] :
        /\ f[LocAA].type # "absent" => f[LocA].type = "dir"
        /\ f[LocAL].type # "absent" => f[LocA].type = "dir"
        /\ f[LocAA] # Dir(FALSE)
        /\ f[LocAL] \in {Absent, Dir(TRUE), Link(<<"/">>)}}

Lookup(f, loc) ==
    IF loc = RootLoc THEN Dir(TRUE)
    ELSE IF loc \in DOMAIN f THEN f[loc]
    ELSE Absent

Parent(loc) == IF loc = RootLoc THEN RootLoc ELSE SubSeq(loc, 1, Len(loc) - 1)

\* The working directory is a directory the process could enter.
WorkDirs(f) == {loc \in {RootLoc, LocA} : Lookup(f, loc) = Dir(TRUE)}

(***************************************************************************)
(* Path text.                                                              *)
(***************************************************************************)
Last(s) == s[Len(s)]

IsAbsolute(s) == Len(s) > 0 /\ s[1] = Slash

\* The runs of units between separators, empty runs dropped.
RECURSIVE Runs(_, _)
Runs(s, cur) ==
    IF s = <<>> THEN (IF cur = <<>> THEN <<>> ELSE <<cur>>)
    ELSE IF Head(s) = Slash
         THEN (IF cur = <<>> THEN <<>> ELSE <<cur>>) \o Runs(Tail(s), <<>>)
         ELSE Runs(Tail(s), Append(cur, Head(s)))

\* The names path resolution walks over.  A trailing separator after a name
\* resolves like a trailing "." (the name must be a directory).
Split(s) ==
    LET names == Runs(s, <<>>)
    IN  IF names # <<>> /\ Last(s) = Slash THEN Append(names, Dot) ELSE names

\* The text of a location: "/" for the root, else "/name" per name.
RECURSIVE Render(_)
Render(loc) ==
    IF loc = RootLoc THEN <<Slash>>
    ELSE (IF Len(loc) = 1 THEN <<>> ELSE Render(Parent(loc))) \o <<Slash>> \o Last(loc)

\* Symbolic links followed in one resolution before ELOOP.  No chain of
\* links in FileSystems that ends is longer than one link.
MaxSymlinks == 4

\* Resolution of the names comps from the node at cur, which is already
\* resolved.  Every step needs cur to be a directory; "." and ".." are then
\* taken on the resolved text, a name is looked up in cur, which the process
\* must be allowed to search.
RECURSIVE Walk(_, _, _, _)
Walk(f, cur, comps, hops) ==
    IF comps = <<>> THEN [ok |-> TRUE, loc |-> cur, err |-> ""]
    ELSE
      LET c == Head(comps)
          rest == Tail(comps)
          here == Lookup(f, cur)
          fail(e) == [ok |-> FALSE, loc |-> RootLoc, err |-> e]
      IN  IF here.type # "dir" THEN fail("ENOTDIR")
          ELSE IF c = Dot THEN Walk(f, cur, rest, hops)
          ELSE IF c = DotDot THEN Walk(f, Parent(cur), rest, hops)
          ELSE IF ~here.x THEN fail("EACCES")
          ELSE
            LET child == Append(cur, c)
                n == Lookup(f, child)
            IN  IF n.type = "absent" THEN fail("ENOENT")
                ELSE IF n.type = "link"
                     THEN IF hops >= MaxSymlinks THEN fail("ELOOP")
                          ELSE IF n.target = <<>> THEN fail("ENOENT")
                          ELSE Walk(f, IF IsAbsolute(n.target) THEN RootLoc ELSE cur,
                                    Split(n.target) \o rest, hops + 1)
                     ELSE Walk(f, child, rest, hops)

\* std::io::Error::from_raw_os_error: the ErrorKind of an errno.
DecodeErrorKind(e) ==
    CASE e = "ENOENT" -> "NotFound"
      [] e = "EACCES" -> "PermissionDenied"
      [] e = "ENOTDIR" -> "NotADirectory"
      [] e = "ELOOP" -> "FilesystemLoop"
      [] OTHER -> "Uncategorized"

OkPath(p) == [ok |-> TRUE, path |-> p, kind |-> "", msg |-> ""]

ErrIo(k, m) == [ok |-> FALSE, path |-> <<>>, kind |-> k, msg |-> m]

\* PathBuf::canonicalize (realpath): the absolute, symlink-free text of the
\* node the path denotes, or the error of the failing lookup.
Canonicalize(f, wd, s) ==
    IF s = <<>> THEN ErrIo(DecodeErrorKind("ENOENT"), "ENOENT")
    ELSE LET w == Walk(f, IF IsAbsolute(s) THEN RootLoc ELSE wd, Split(s), 0)
         IN  IF w.ok THEN OkPath(Render(w.loc))
             ELSE ErrIo(DecodeErrorKind(w.err), w.err)

\* PathBuf::push of a relative path: a separator is added unless the buffer
\* is empty or already ends with one.
Push(p, seg) ==
    IF p # <<>> /\ Last(p) # Slash THEN p \o <<Slash>> \o seg ELSE p \o seg

HomeDirMessage == "Could not find home directory"

\* Variant: the override is honored only when no home directory is found.
find_codex_home_HomeFirst(e, h, f, wd) ==
    LET v == EnvVar(e)
    IN  IF h.some
        THEN [res |-> OkPath(Push(h.path, DotLexicon)), canon |-> FALSE, asked |-> TRUE]
        ELSE IF v.ok /\ v.val # <<>>
             THEN [res |-> Canonicalize(f, wd, v.val), canon |-> TRUE, asked |-> TRUE]
             ELSE [res |-> ErrIo("NotFound", HomeDirMessage),
                   canon |-> FALSE, asked |-> TRUE]

\* Variant: an override that fails to canonicalize is returned as given.
find_codex_home_KeepRaw(e, h, f, wd) ==
    LET v == EnvVar(e)
        c == Canonicalize(f, wd, v.val)
    IN  IF v.ok /\ v.val # <<>>
        THEN [res |-> IF c.ok THEN c ELSE OkPath(v.val), canon |-> TRUE, asked |-> FALSE]
        ELSE IF ~h.some
             THEN [res |-> ErrIo("NotFound", HomeDirMessage),
                   canon |-> FALSE, asked |-> TRUE]
             ELSE [res |-> OkPath(Push(h.path, DotLexicon)),
                   canon |-> FALSE, asked |-> TRUE]

\* Variant: the default path is canonicalized too.
find_codex_home_CanonDefault(e, h, f, wd) ==
    LET v == EnvVar(e)
    IN  IF v.ok /\ v.val # <<>>
        THEN [res |-> Canonicalize(f, wd, v.val), canon |-> TRUE, asked |-> FALSE]
        ELSE IF ~h.some
             THEN [res |-> ErrIo("NotFound", HomeDirMessage),
                   canon |-> FALSE, asked |-> TRUE]
             ELSE [res |-> Canonicalize(f, wd, Push(h.path, DotLexicon)),
                   canon |-> TRUE, asked |-> TRUE]

\* Variant: the test for an empty value is missing.
find_codex_home_NoEmptyCheck(e, h, f, wd) ==
    LET v == EnvVar(e)
    IN  IF v.ok
        THEN [res |-> Canonicalize(f, wd, v.val), canon |-> TRUE, asked |-> FALSE]
        ELSE IF ~h.some
             THEN [res |-> ErrIo("NotFound", HomeDirMessage),
                   canon |-> FALSE, asked |-> TRUE]
             ELSE [res |-> OkPath(Push(h.path, DotLexicon)),
                   canon |-> FALSE, asked |-> TRUE]

\* Variant: a missing home directory is replaced by the empty path.
find_codex_home_DefaultHome(e, h, f, wd) ==
    LET v == EnvVar(e)
    IN  IF v.ok /\ v.val # <<>>
        THEN [res |-> Canonicalize(f, wd, v.val), canon |-> TRUE, asked |-> FALSE]
        ELSE [res |-> OkPath(Push(h.path, DotLexicon)),
              canon |-> FALSE, asked |-> TRUE]

\* Variant: an override that fails to canonicalize falls back to the default.
find_codex_home_Fallback(e, h, f, wd) ==
    LET v == EnvVar(e)
        c == Canonicalize(f, wd, v.val)
    IN  IF v.ok /\ v.val # <<>> /\ c.ok
        THEN [res |-> c, canon |-> TRUE, asked |-> FALSE]
        ELSE IF ~h.some
             THEN [res |-> ErrIo("NotFound", HomeDirMessage),
                   canon |-> v.ok /\ v.val # <<>>, asked |-> TRUE]
             ELSE [res |-> OkPath(Push(h.path, DotLexicon)),
                   canon |-> v.ok /\ v.val # <<>>, asked |-> TRUE]

\* Variant: the override is checked by canonicalize but returned as given.
find_codex_home_NoCanon(e, h, f, wd) ==
    LET v == EnvVar(e)
        c == Canonicalize(f, wd, v.val)
    IN  IF v.ok /\ v.val # <<>>
        THEN [res |-> IF c.ok THEN OkPath(v.val) ELSE c, canon |-> TRUE, asked |-> FALSE]
        ELSE IF ~h.some
             THEN [res |-> ErrIo("NotFound", HomeDirMessage),
                   canon |-> FALSE, asked |-> TRUE]
             ELSE [res |-> OkPath(Push(h.path, DotLexicon)),
                   canon |-> FALSE, asked |-> TRUE]

\* Variant: an override that is not a directory is refused.
find_codex_home_DirOnly(e, h, f, wd) ==
    LET v == EnvVar(e)
        c == Canonicalize(f, wd, v.val)
    IN  IF v.ok /\ v.val # <<>>
        THEN [res |-> IF c.ok /\ Lookup(f, Runs(c.path, <<>>)).type # "dir"
                      THEN ErrIo("NotADirectory", "ENOTDIR") ELSE c,
              canon |-> TRUE, asked |-> FALSE]
        ELSE IF ~h.some
             THEN [res |-> ErrIo("NotFound", HomeDirMessage),
                   canon |-> FALSE, asked |-> TRUE]
             ELSE [res |-> OkPath(Push(h.path, DotLexicon)),
                   canon |-> FALSE, asked |-> TRUE]

\* Variant: a value that is not Unicode is reported as an error.
find_codex_home_StrictUnicode(e, h, f, wd) ==
    LET v == EnvVar(e)
    IN  IF v.err = "NotUnicode"
        THEN [res |-> ErrIo("InvalidData", "NotUnicode"), canon |-> FALSE, asked |-> FALSE]
        ELSE IF v.ok /\ v.val # <<>>
        THEN [res |-> Canonicalize(f, wd, v.val), canon |-> TRUE, asked |-> FALSE]
        ELSE IF ~h.some
             THEN [res |-> ErrIo("NotFound", HomeDirMessage),
                   canon |-> FALSE, asked |-> TRUE]
             ELSE [res |-> OkPath(Push(h.path, DotLexicon)),
                   canon |-> FALSE, asked |-> TRUE]

(***************************************************************************)
(* find_codex_home.  Besides the io::Result it returns, the value records  *)
(* which of the two lookups the call made.                                 *)
(***************************************************************************)
find_codex_home(e, h, f, wd) ==
    LET v == EnvVar(e)
    IN  IF v.ok /\ v.val # <<>>
        THEN [res |-> Canonicalize(f, wd, v.val), canon |-> TRUE, asked |-> FALSE]
        ELSE IF ~h.some
             THEN [res |-> ErrIo("NotFound", HomeDirMessage),
                   canon |-> FALSE, asked |-> TRUE]
             ELSE [res |-> OkPath(Push(h.path, DotLexicon)),
                   canon |-> FALSE, asked |-> TRUE]

(***************************************************************************)
(* State.                                                                  *)
(***************************************************************************)
VARIABLES env, home, fs, cwd, pc, result, canonCalled, homeAsked

vars == <<env, home, fs, cwd, pc, result, canonCalled, homeAsked>>

world == <<env, home, fs, cwd>>

NoResult == ErrIo("", "")

Init ==
    /\ env \in EnvValues
    /\ home \in HomeDirs
    /\ fs \in FileSystems
    /\ cwd \in WorkDirs(fs)
    /\ pc = "idle"
    /\ result = NoResult
    /\ canonCalled = FALSE
    /\ homeAsked = FALSE

\* Variant: the call creates the default directory it returns.
Resolve_CreateDir ==
    LET r == find_codex_home(env, home, fs, cwd)
        loc == Runs(r.res.path, <<>>)
        creates == /\ r.res.ok /\ ~r.canon /\ IsAbsolute(r.res.path)
                   /\ loc \in Slots
                   /\ Lookup(fs, loc).type = "absent"
                   /\ Lookup(fs, Parent(loc)).type = "dir"
    IN  /\ pc' = "returned"
        /\ result' = r.res
        /\ canonCalled' = r.canon
        /\ homeAsked' = r.asked
        /\ fs' = IF creates THEN [fs EXCEPT ![loc] = Dir(TRUE)] ELSE fs
        /\ UNCHANGED <<env, home, cwd>>

\* One call of find_codex_home().
Resolve ==
    LET r == find_codex_home(env, home, fs, cwd)
    IN  /\ pc' = "returned"
        /\ result' = r.res
        /\ canonCalled' = r.canon
        /\ homeAsked' = r.asked
        /\ UNCHANGED world

Forget ==
    /\ pc' = "idle"
    /\ result' = NoResult
    /\ canonCalled' = FALSE
    /\ homeAsked' = FALSE

\* The environment between calls: the variable grows by one unit, ...
SetVar ==
    /\ Len(env.val) < MaxLen
    /\ \E c \in OsBytes : env' = SetTo(Append(env.val, c))
    /\ UNCHANGED <<home, fs, cwd>>
    /\ Forget

\* ... is removed, ...
RemoveVar ==
    /\ env.set
    /\ env' = Unset
    /\ UNCHANGED <<home, fs, cwd>>
    /\ Forget

\* ... the home directory the OS reports changes, ...
HomeChange ==
    /\ \E h \in HomeDirs \ {home} : home' = h
    /\ UNCHANGED <<env, fs, cwd>>
    /\ Forget

\* ... the search permission of /a is flipped, ...
Chmod ==
    /\ fs[LocA].type = "dir"
    /\ cwd = RootLoc
    /\ fs' = [fs EXCEPT ![LocA] = Dir(~fs[LocA].x)]
    /\ UNCHANGED <<env, home, cwd>>
    /\ Forget

\* ... or a leaf of the tree is removed.
Unlink ==
    /\ \E loc \in Slots :
         /\ fs[loc].type # "absent"
         /\ \A sub \in Slots : Len(sub) > Len(loc) => fs[sub].type = "absent"
         /\ cwd # loc
         /\ fs' = [fs EXCEPT ![loc] = Absent]
    /\ UNCHANGED <<env, home, cwd>>
    /\ Forget

Next == Resolve \/ SetVar \/ RemoveVar \/ HomeChange \/ Chmod \/ Unlink

Spec == Init /\ [][Next]_vars

(***************************************************************************)
(* Vocabulary of the properties.                                           *)
(***************************************************************************)
Returned == pc = "returned"

IsUnicode(v) == \A i \in 1..Len(v) : v[i] # InvalidByte

\* LEXICON_HOME holds the (Unicode, non-empty) path text env.val.
OverrideSet == env.set /\ IsUnicode(env.val) /\ env.val # <<>>

\* The filesystem as a process that may search every directory sees it.
AllSearchable(f) ==
    [loc \in DOMAIN f |-> IF f[loc].type = "dir" THEN Dir(TRUE) ELSE f[loc]]

StartOf(s) == IF IsAbsolute(s) THEN RootLoc ELSE cwd

\* The node the path text s denotes, symbolic links followed.
Denotes(s) == Walk(AllSearchable(fs), StartOf(s), Split(s), 0)

\* s names a node of the filesystem.
ExistsOnFs(s) == s # <<>> /\ Denotes(s).ok

\* The lookup of s by the process itself.
Lookup0(s) == Walk(fs, StartOf(s), Split(s), 0)

\* The process may search every directory in which a name of s is looked up.
Traversable(s) == Lookup0(s).err # "EACCES"

\* p is canonical text: absolute, "/name" per name, no "." or "..", and no
\* name on the way is a symbolic link.
IsCanonical(p) ==
    LET names == Runs(p, <<>>)
    IN  /\ IsAbsolute(p)
        /\ p = Render(names)
        /\ \A i \in 1..Len(names) : names[i] # Dot /\ names[i] # DotDot
        /\ \A i \in 1..Len(names) :
             Lookup(fs, SubSeq(names, 1, i)).type =
                 (IF i < Len(names) THEN "dir"
                  ELSE Lookup(fs, names).type)
        /\ Lookup(fs, names).type \in {"dir", "file"}

\* result is the success carrying the canonical form of env.val.
ReturnsCanonicalOfOverride ==
    /\ result.ok
    /\ IsCanonical(result.path)
    /\ Runs(result.path, <<>>) = Denotes(env.val).loc

C3_DefaultSuffix ==
    (Returned /\ ~env.set /\ home.some)
        => /\ result.ok
           /\ \E sep \in {<<>>, <<Slash>>} :
                result.path = home.path \o sep \o DotLexicon
           /\ Runs(result.path, <<>>) = Append(Runs(home.path, <<>>), DotLexicon)
           /\ IsAbsolute(result.path) = IsAbsolute(home.path)
           /\ ~canonCalled

\* The default is returned as text although /a/.lexicon is a symbolic link.
C3_Witness ==
    /\ Returned /\ ~env.set
    /\ home = Found(<<"/", "a">>)
    /\ fs[LocAL] = Link(<<"/">>)
    /\ result = OkPath(<<"/", "a", "/", ".", "lexicon">>)

\* The same default is returned where neither /a nor /a/.lexicon exists.
C3_WitnessMissing ==
    /\ Returned /\ ~env.set
    /\ home = Found(<<"/", "a">>)
    /\ fs[LocA].type = "absent"
    /\ result = OkPath(<<"/", "a", "/", ".", "lexicon">>)

(***************************************************************************)
(* C4.  Empty override ignored: with LEXICON_HOME set to the empty string  *)
(* the call returns, for every home directory and filesystem, the outcome  *)
(* it returns with the variable unset, and canonicalizes nothing.          *)
(***************************************************************************)
C4_EmptyOverrideIgnored ==
    (Returned /\ env = SetTo(<<>>))
        => /\ result = find_codex_home(Unset, home, fs, cwd).res
           /\ ~canonCalled
           /\ homeAsked

\* The empty override yields the default path.
C4_Witness ==
    /\ Returned /\ env = SetTo(<<>>)
    /\ home = Found(<<"/">>)
    /\ result = OkPath(<<"/", ".", "lexicon">>)

(***************************************************************************)
(* C5.  No home directory: whenever LEXICON_HOME is unset or empty and     *)
(* the OS supplies no home directory, the call returns the error of kind   *)
(* NotFound with the message "Could not find home directory" and no path.  *)
(***************************************************************************)
C5_NoHomeDirectory ==
    (Returned /\ (~env.set \/ env.val = <<>>) /\ ~home.some)
        => /\ ~result.ok
           /\ result.kind = "NotFound"
           /\ result.msg = "Could not find home directory"
           /\ result.path = <<>>

C5_Witness ==
    /\ Returned /\ ~env.set /\ ~home.some
    /\ result.kind = "NotFound"
    /\ fs[LocA].type = "dir"

(***************************************************************************)
(* C6.  No fallback on override failure: whenever LEXICON_HOME is set and  *)
(* non-empty and its canonicalization fails, for whatever reason, the call *)
(* returns that I/O error unchanged and never the default path, whether or *)
(* not a home directory is available; the home directory is not looked up. *)
(***************************************************************************)
C6_NoFallback ==
    (Returned /\ OverrideSet /\ ~Lookup0(env.val).ok)
        => /\ ~result.ok
           /\ result.path = <<>>
           /\ result.kind = DecodeErrorKind(Lookup0(env.val).err)
           /\ result.msg = Lookup0(env.val).err
           /\ ~homeAsked

\* Permission denied on the override is returned although the default path
\* could have been computed.
C6_Witness ==
    /\ Returned /\ OverrideSet
    /\ home = Found(<<"/", "a">>)
    /\ fs[LocA] = Dir(FALSE) /\ fs[LocAA] = File
    /\ env.val = <<"a", "/", "a">>
    /\ result = ErrIo("PermissionDenied", "EACCES")

(***************************************************************************)
(* C7.  Absolute result, as stated: every successful result is an          *)
(* absolute path, in the override branch and in the default branch, for    *)
(* every value the environment and the home-directory lookup supply.       *)
(* Fails: a relative home directory H gives the relative H/.lexicon.       *)
(***************************************************************************)
C7_AsStated ==
    (Returned /\ result.ok) => IsAbsolute(result.path)

(***************************************************************************)
(* C7, amended.  Every successful result of the override branch is an      *)
(* absolute path; a successful result of the default branch is absolute    *)
(* exactly when the home directory reported by the OS is absolute.         *)
(***************************************************************************)
C7_AbsoluteResult ==
    (Returned /\ result.ok)
        => /\ OverrideSet => IsAbsolute(result.path)
           /\ ~OverrideSet => (IsAbsolute(result.path) <=> IsAbsolute(home.path))

\* A relative override made absolute, with a relative home directory.
C7_Witness ==
    /\ Returned /\ result.ok /\ OverrideSet
    /\ ~IsAbsolute(env.val)
    /\ cwd = LocA
    /\ home = Found(<<"a">>)
    /\ result.path = <<"/", "a">>

(***************************************************************************)
(* C8.  No side effects, no state: a call leaves the environment, the home *)
(* directory, the working directory and the filesystem as they were, in    *)
(* every outcome (the default directory is not created), and a call        *)
(* repeated in an unchanged world returns what the call before returned.   *)
(***************************************************************************)
C8_NoSideEffects ==
    [][pc' = "returned" =>
          /\ UNCHANGED world
          /\ pc = "returned" => result' = result]_vars

\* The default path was returned and its directory still does not exist.
C8_Witness ==
    /\ Returned /\ ~env.set
    /\ home = Found(<<"/", "a">>)
    /\ fs[LocA] = Dir(TRUE) /\ fs[LocAL] = Absent
    /\ result.ok

(***************************************************************************)
(* C9.  Non-directory override, as stated: whenever LEXICON_HOME is set to *)
(* the path of an existing regular file, the call succeeds and returns the *)
(* canonical path of that file.                                            *)
(* Fails: a file below a directory the process may not search.             *)
(***************************************************************************)
OverrideIsFile ==
    /\ OverrideSet
    /\ ExistsOnFs(env.val)
    /\ Lookup(fs, Denotes(env.val).loc).type = "file"

C10_NotUnicodeIsUnset ==
    Returned =>
        /\ (env.set /\ ~IsUnicode(env.val)) =>
              /\ ~canonCalled
              /\ homeAsked
              /\ home.some => result = OkPath(Push(home.path, DotLexicon))
              /\ ~home.some => result = ErrIo("NotFound", HomeDirMessage)
        /\ canonCalled => OverrideSet

\* A value with an invalid byte that would otherwise name the existing /a.
C10_Witness ==
    /\ Returned
    /\ env.val = <<"/", "a", InvalidByte>>
    /\ fs[LocA] = Dir(TRUE)
    /\ home = Found(<<"/">>)
    /\ result = OkPath(<<"/", ".", "lexicon">>)

====
